---- MODULE Spec2Model ----
(***************************************************************************)
(* Model of src/src/data_loader.py: the cache-then-fetch-with-retry path   *)
(* of fetch_yfinance and its helpers.                                      *)
(*                                                                         *)
(* A DataFrame is a record [cols, tz, rows]: its set of column names,      *)
(* whether its index is timezone-aware, and its rows in index order.  A    *)
(* row is [date, close, adj]; a cell of a column the frame does not have   *)
(* is 0.  Dates are day numbers.  The code copies prices and never         *)
(* inspects them, so raw inputs carry one price per date and column, with  *)
(* the close and the adjusted close of a date different.                   *)
(***************************************************************************)
EXTENDS Integers, Sequences, FiniteSets

\* ------------------------------------------------------------- bounds

\* Longest raw frame (rows of a cache file, rows of a remote result).
MaxRows == 2

\* Largest max_retries a caller passes.
MaxRetries == 2

\* ---------------------------------------------------------- constants

\* The inclusive date window, as day numbers.
START_DATE == 1

END_DATE == 2

\* One day before the window, the window, one day after it.
Dates == (START_DATE - 1)..(END_DATE + 1)

Tickers == {"TSLA", "AAPL"}

\* Column sets of a raw frame: no column at all, or some data column
\* ("Volume") with or without "Close" and "Adj Close".
ColSets == {{}} \cup {{"Volume"} \cup s : s \in SUBSET {"Close", "Adj Close"}}

ClosePrice(d) == 10 + d

AdjPrice(d) == 20 + d

\* ------------------------------------------------------------- frames

\* pd.DataFrame()
EmptyFrame == [cols |-> {}, tz |-> FALSE, rows |-> <<>>]

RawRow(c, d) ==
    [date |-> d,
     close |-> IF "Close" \in c THEN ClosePrice(d) ELSE 0,
     adj |-> IF "Adj Close" \in c THEN AdjPrice(d) ELSE 0]

DateSeqs == UNION {[1..n -> Dates] : n \in 0..MaxRows}

\* Every raw frame a cache file or the remote service can hold.
RawFrames ==
    {[cols |-> c, tz |-> z, rows |-> [i \in DOMAIN ds |-> RawRow(c, ds[i])]] :
        c \in ColSets, z \in BOOLEAN, ds \in DateSeqs}

\* data.empty: any axis of length 0.
IsEmpty(data) == Len(data.rows) = 0 \/ data.cols = {}

\* _normalize_index: an empty frame is returned as it is; otherwise the
\* index is made a timezone-naive DatetimeIndex.
_normalize_index(data) ==
    IF IsEmpty(data) THEN data ELSE [data EXCEPT !.tz = FALSE]

InRange(row) == row.date >= START_DATE /\ row.date <= END_DATE

Reverse(rows) == [i \in DOMAIN rows |-> rows[Len(rows) + 1 - i]]

\* A filter that hands the rows back newest first.
_filter_to_date_range_reversed(data) ==
    IF IsEmpty(data)
    THEN data
    ELSE [data EXCEPT !.tz = FALSE,
                      !.rows = Reverse(SelectSeq(data.rows, InRange))]

\* _filter_to_date_range: an empty frame is returned as it is; otherwise
\* the rows whose index lies in [START_DATE, END_DATE], in their order.
_filter_to_date_range(data) ==
    IF IsEmpty(data)
    THEN data
    ELSE LET n == _normalize_index(data)
         IN  [n EXCEPT !.rows = SelectSeq(n.rows, InRange)]

\* ------------------------------------------------------------- cache

\* The cache file of a ticker: absent, present but such that reading or
\* parsing it raises, or present and parsed by pd.read_csv to a frame.
Missing == [kind |-> "missing", data |-> EmptyFrame]

Malformed == [kind |-> "malformed", data |-> EmptyFrame]

File(data) == [kind |-> "file", data |-> data]

Entries == {Missing, Malformed} \cup {File(f) : f \in RawFrames}

\* _get_cache_path: os.makedirs(cache_dir, exist_ok=True) succeeds when the
\* directory exists, which it does when it holds a cache file; otherwise it
\* creates the directory or raises.
_get_cache_path(c) ==
    IF \E t \in Tickers : c[t].kind # "missing" THEN {"ok"} ELSE {"ok", "raise"}

\* A loader whose except branch returns an empty frame instead of None.
_load_from_cache_empty_on_error(entry) ==
    IF entry.kind = "file"
    THEN [found |-> TRUE,
          data |-> _filter_to_date_range(_normalize_index(entry.data))]
    ELSE [found |-> entry.kind = "malformed", data |-> EmptyFrame]

\* _load_from_cache after _get_cache_path returned: None when the file is
\* absent or reading it raises, else the file normalized and filtered.
_load_from_cache(entry) ==
    IF entry.kind = "file"
    THEN [found |-> TRUE,
          data |-> _filter_to_date_range(_normalize_index(entry.data))]
    ELSE [found |-> FALSE, data |-> EmptyFrame]

\* A save that writes only the first row of the frame.
_save_to_cache_truncated(c, t, data, ok) ==
    IF IsEmpty(data) \/ ~ok
    THEN c
    ELSE [c EXCEPT ![t] = File([data EXCEPT !.rows = SubSeq(data.rows, 1, 1)])]

\* _save_to_cache: nothing for an empty frame; otherwise the filtered and
\* normalized copy replaces the file, unless writing raises (ok = FALSE),
\* which is caught and leaves the cache as it was.
_save_to_cache(c, t, data, ok) ==
    IF IsEmpty(data) \/ ~ok
    THEN c
    ELSE [c EXCEPT ![t] = File(_normalize_index(_filter_to_date_range(data)))]

\* ------------------------------------------------------------ remote

\* One request to the remote service raises or returns a frame.
Raise == [kind |-> "raise", data |-> EmptyFrame]

RemoteOutcomes == {Raise} \cup {[kind |-> "data", data |-> f] : f \in RawFrames}

\* What _fetch_data does with the frame a request returned.
Filtered(data) == IF ~IsEmpty(data) THEN _filter_to_date_range(data) ELSE data

\* _fetch_data: the start/end request r1; if it raises, the period request
\* r2; if that raises too, an empty frame.  calls is the number of requests
\* made and raw the frame the result was made of.
_fetch_data(r1, r2) ==
    IF r1.kind = "data"
    THEN [data |-> Filtered(r1.data), calls |-> 1, raw |-> r1.data]
    ELSE IF r2.kind = "data"
         THEN [data |-> Filtered(r2.data), calls |-> 2, raw |-> r2.data]
         ELSE [data |-> EmptyFrame, calls |-> 2, raw |-> EmptyFrame]

\* Lines 156-158: a missing "Adj Close" column is copied from "Close".
EnsureAdjClose(data) ==
    IF "Adj Close" \notin data.cols /\ "Close" \in data.cols
    THEN [data EXCEPT !.cols = data.cols \cup {"Adj Close"},
                      !.rows = [i \in DOMAIN data.rows |->
                                   [data.rows[i] EXCEPT !.adj = data.rows[i].close]]]
    ELSE data

\* A loop that gives up one attempt early.
ContinueRetryEarly(k, n) == k < n - 2

\* Lines 151 and 169: after a failed attempt, whether the loop goes on.
ContinueRetry(k, n) == k < n - 1

\* A save that ignores use_cache.
ShouldSaveAlways(uc) == TRUE

\* Line 161: whether a downloaded frame is saved.
ShouldSave(uc) == uc

\* ------------------------------------------------------------- state

VARIABLES
    cache,       \* ticker -> cache file
    pc,          \* where the current fetch_yfinance call stands
    ticker, use_cache, cache_only, max_retries,   \* its arguments
    fetches,     \* _fetch_data calls made so far; the loop's attempt index
    remoteCalls, \* requests made to the remote service
    waits,       \* time.sleep calls made
    outcome,     \* "none" while running, then "returned" or "raised"
    ret,         \* the frame returned
    entry0,      \* the ticker's cache file when the call began
    src,         \* what the returned frame was made of
    first        \* the previous call, when the call is a repeated one

vars == <<cache, pc, ticker, use_cache, cache_only, max_retries, fetches,
          remoteCalls, waits, outcome, ret, entry0, src, first>>

StrictlyIncreasing(rows) ==
    \A i \in 1..Len(rows) : \A j \in 1..Len(rows) :
        i < j => rows[i].date < rows[j].date

NoSource == [kind |-> "none", cols |-> {}, sorted |-> TRUE]

\* The raw input a returned frame was made of: a cache file or a remote
\* result, its columns, and whether its dates were strictly increasing.
Source(k, raw) ==
    [kind |-> k, cols |-> raw.cols, sorted |-> StrictlyIncreasing(raw.rows)]

\* Everything one call of _fetch_data can come back with, over all the
\* behaviours of its requests: the first returns a frame (the second is
\* not made), or the first raises and the second returns or raises.
FetchDataResults ==
    LET Result(r1, r2) ==
            LET got == _fetch_data(r1, r2)
            IN  [data |-> got.data, calls |-> got.calls,
                 src |-> Source("remote", got.raw)]
    IN  {Result(r1, Raise) : r1 \in RemoteOutcomes \ {Raise}}
        \cup {Result(Raise, r2) : r2 \in RemoteOutcomes}

NoCall == [called |-> FALSE, ticker |-> "TSLA", use_cache |-> FALSE,
           cache_only |-> FALSE, max_retries |-> 0, entry0 |-> Missing,
           fetches |-> 0, outcome |-> "none", ret |-> EmptyFrame]

Idle ==
    /\ pc = "idle"
    /\ ticker = "TSLA" /\ use_cache = FALSE /\ cache_only = FALSE
    /\ max_retries = 0
    /\ fetches = 0 /\ remoteCalls = 0 /\ waits = 0
    /\ outcome = "none" /\ ret = EmptyFrame
    /\ entry0 = Missing /\ src = NoSource /\ first = NoCall

\* Any cache directory with at most one cache file, of any content.  The
\* tickers are interchangeable, so the file is the first ticker's.
Init ==
    /\ \E e \in Entries :
           cache = [u \in Tickers |-> IF u = "TSLA" THEN e ELSE Missing]
    /\ Idle

\* A fresh working directory: no cache file.
InitNoCache ==
    /\ cache = [u \in Tickers |-> Missing]
    /\ Idle

\* ----------------------------------------------------------- actions

Begin(t, uc, co, mr) ==
    /\ ticker' = t /\ use_cache' = uc /\ cache_only' = co /\ max_retries' = mr
    /\ pc' = "check"
    /\ fetches' = 0 /\ remoteCalls' = 0 /\ waits' = 0
    /\ outcome' = "none" /\ ret' = EmptyFrame /\ src' = NoSource
    /\ entry0' = cache[t]
    /\ UNCHANGED cache

\* fetch_yfinance(t, use_cache=uc, cache_only=co, max_retries=mr) is called.
Call ==
    /\ pc = "idle"
    /\ \E t \in Tickers, uc \in BOOLEAN, co \in BOOLEAN, mr \in 0..MaxRetries :
           Begin(t, uc, co, mr)
    /\ UNCHANGED first

\* The caller issues the same caching call a second time, after the first
\* ended.
Repeat ==
    /\ pc = "done" /\ ~first.called
    /\ use_cache
    /\ first' = [called |-> TRUE, ticker |-> ticker, use_cache |-> use_cache,
                 cache_only |-> cache_only, max_retries |-> max_retries,
                 entry0 |-> entry0, fetches |-> fetches,
                 outcome |-> outcome, ret |-> ret]
    /\ Begin(ticker, use_cache, cache_only, max_retries)

Return(data, s) ==
    /\ pc' = "done" /\ outcome' = "returned" /\ ret' = data /\ src' = s

\* Lines 125-133: the cache is tried first; in cache-only mode a miss
\* returns an empty frame.  _get_cache_path is called outside any try.
CheckCache ==
    /\ pc = "check"
    /\ IF use_cache \/ cache_only
       THEN \E mk \in _get_cache_path(cache) :
              IF mk = "raise"
              THEN pc' = "done" /\ outcome' = "raised" /\ UNCHANGED <<ret, src>>
              ELSE LET cached == _load_from_cache(cache[ticker])
                   IN  IF cached.found
                       THEN Return(cached.data, Source("cache", cache[ticker].data))
                       ELSE IF cache_only
                            THEN Return(EmptyFrame, NoSource)
                            ELSE pc' = "delay" /\ UNCHANGED <<outcome, ret, src>>
       ELSE pc' = "delay" /\ UNCHANGED <<outcome, ret, src>>
    /\ UNCHANGED <<cache, ticker, use_cache, cache_only, max_retries, fetches,
                   remoteCalls, waits, entry0, first>>

\* Line 136: the initial delay.
InitialDelay ==
    /\ pc = "delay"
    /\ waits' = waits + 1
    /\ pc' = "loop"
    /\ UNCHANGED <<cache, ticker, use_cache, cache_only, max_retries, fetches,
                   remoteCalls, outcome, ret, entry0, src, first>>

\* Lines 139-165: one iteration of the retry loop: the backoff wait of a
\* retry, _fetch_data, and what is done with its result.  _fetch_data and
\* _save_to_cache catch every Exception themselves and nothing else in the
\* try body raises, so the except branch of lines 167-171 is never taken.
Attempt ==
    /\ pc = "loop"
    /\ fetches < max_retries
    /\ \E got \in FetchDataResults :
         LET attempt == fetches
             data == EnsureAdjClose(got.data)
         IN  /\ waits' = IF attempt > 0 THEN waits + 1 ELSE waits
             /\ fetches' = fetches + 1
             /\ remoteCalls' = remoteCalls + got.calls
             /\ IF IsEmpty(got.data)
                THEN /\ IF ContinueRetry(attempt, max_retries)
                        THEN UNCHANGED <<pc, outcome, ret, src>>
                        ELSE Return(EmptyFrame, NoSource)
                     /\ UNCHANGED cache
                ELSE /\ IF ShouldSave(use_cache)
                        THEN \E ok \in BOOLEAN :
                                cache' = _save_to_cache(cache, ticker, data, ok)
                        ELSE UNCHANGED cache
                     /\ Return(data, got.src)
    /\ UNCHANGED <<ticker, use_cache, cache_only, max_retries, entry0, first>>

\* Line 173: the loop ends without having returned.
LoopExit ==
    /\ pc = "loop"
    /\ fetches >= max_retries
    /\ Return(EmptyFrame, NoSource)
    /\ UNCHANGED <<cache, ticker, use_cache, cache_only, max_retries, fetches,
                   remoteCalls, waits, entry0, first>>

Next == Call \/ CheckCache \/ InitialDelay \/ Attempt \/ LoopExit

\* One call of fetch_yfinance, from any cache directory.
Spec == Init /\ [][Next]_vars

NextTwice == Next \/ Repeat

\* A call with use_cache=True made twice in succession, from a fresh
\* directory.
SpecTwice == InitNoCache /\ [][NextTwice]_vars

\* ------------------------------------------------------------ claims

Done == pc = "done"

Returned == pc = "done" /\ outcome = "returned"

AllInWindow(data) == \A i \in 1..Len(data.rows) : InRange(data.rows[i])

\* C1: every row of a frame fetch_yfinance returns, and every row of a
\* cache file it wrote, has START_DATE <= date <= END_DATE.
C1_WindowInvariant ==
    /\ Returned => AllInWindow(ret)
    /\ Done /\ cache[ticker] # entry0 => AllInWindow(cache[ticker].data)

\* C2: every call of fetch_yfinance ends by returning a frame, never by
\* raising, whatever its collaborators do.
C2_NeverRaises == Done => outcome = "returned"

\* C3: a cache_only call for a ticker with no cache file returns an empty
\* frame and makes no remote request, for every use_cache and max_retries.
C3_CacheOnlyShortCircuit ==
    Done /\ cache_only /\ entry0.kind = "missing"
        => outcome = "returned" /\ ret = EmptyFrame /\ remoteCalls = 0

\* C4: a call that went on to the remote service and got no data from any
\* attempt (each request raised or came back empty) made exactly
\* max_retries attempts and returned an empty frame without raising.
C4_RetryExhaustion ==
    Done /\ waits >= 1 /\ src.kind # "remote"
        => fetches = max_retries /\ outcome = "returned" /\ ret = EmptyFrame

\* C4's case: max_retries attempts, every request of which raised or came
\* back empty.
C4_Witness ==
    /\ Done /\ waits >= 1 /\ src.kind # "remote"
    /\ max_retries = MaxRetries /\ fetches = MaxRetries
    /\ remoteCalls = 2 * MaxRetries
    /\ ret = EmptyFrame

\* C5 as stated: fetch(ticker, use_cache=true) called twice with no cache
\* file at first makes exactly one remote fetch sequence in total, and the
\* second call returns the cached result without a remote request.
C5_IdempotentCaching ==
    /\ Done /\ first.called
    /\ ~cache_only /\ max_retries >= 1
    /\ first.entry0.kind = "missing"
    /\ first.outcome = "returned" /\ outcome = "returned"
    => /\ first.fetches >= 1 /\ fetches = 0
       /\ remoteCalls = 0
       /\ ret = first.ret

\* C5 amended: when the first of the two calls got a non-empty frame and
\* its cache file was written, the second call makes no remote request, no
\* wait, and returns the frame the first call returned: one remote fetch
\* sequence in total.
C5_IdempotentCachingWhenSaved ==
    /\ Done /\ first.called
    /\ first.entry0.kind = "missing"
    /\ ~IsEmpty(first.ret)
    /\ entry0.kind = "file"
    => /\ first.fetches >= 1 /\ fetches = 0
       /\ remoteCalls = 0 /\ waits = 0
       /\ outcome = "returned"
       /\ ret = first.ret
       /\ cache[ticker] = File(first.ret)

\* C5's case: the first call succeeds on its last attempt and is cached;
\* the second returns the same frame.
C5_Witness ==
    /\ Done /\ first.called
    /\ first.entry0.kind = "missing"
    /\ Len(first.ret.rows) = MaxRows
    /\ entry0.kind = "file"
    /\ first.fetches = MaxRetries
    /\ ret = first.ret

\* C6 as stated: every frame returned has strictly increasing dates, no
\* date twice, whatever the order of the rows of the raw cache file or
\* remote result.
C6_StrictlyIncreasing == Returned => StrictlyIncreasing(ret.rows)

\* C6 amended: every frame returned has strictly increasing dates, no date
\* twice, provided the rows of the raw cache file or remote result it was
\* made of are in strictly increasing date order.
C6_OrderPreserved ==
    Returned /\ src.sorted => StrictlyIncreasing(ret.rows)

\* C6's case: a cache file with rows in date order, two of them returned.
C6_Witness ==
    /\ Returned /\ src.kind = "cache" /\ src.sorted
    /\ Len(entry0.data.rows) = MaxRows
    /\ Len(ret.rows) = 2

\* C7: every non-empty frame returned, from the remote service or from a
\* cache file, has an "Adj Close" column; when the input lacked it but had
\* "Close", the adjusted close of every row equals its close.
C7_AdjustedClose ==
    Returned /\ ~IsEmpty(ret)
        => /\ "Adj Close" \in ret.cols
           /\ "Adj Close" \notin src.cols /\ "Close" \in src.cols
                  => \A i \in 1..Len(ret.rows) :
                         ret.rows[i].adj = ret.rows[i].close

\* C8: with use_cache or cache_only and a readable cache file, the call
\* returns that file filtered to the window and makes no remote request
\* and no wait, even when no row is left.
C8_CacheHit ==
    Done /\ (use_cache \/ cache_only) /\ entry0.kind = "file"
        => /\ outcome = "returned"
           /\ ret.cols = entry0.data.cols
           /\ ret.rows = SelectSeq(entry0.data.rows, InRange)
           /\ remoteCalls = 0 /\ fetches = 0 /\ waits = 0

\* C9: a step changes the cache only when use_cache is set and a remote
\* attempt gave a non-empty in-window frame; the ticker's file then becomes
\* exactly the frame returned, and no other ticker's file changes.
C9_CacheWritePolicy ==
    [][cache' # cache
         => /\ use_cache /\ ~cache_only
            /\ pc = "loop" /\ pc' = "done" /\ outcome' = "returned"
            /\ src'.kind = "remote"
            /\ ~IsEmpty(ret') /\ AllInWindow(ret')
            /\ cache' = [cache EXCEPT ![ticker] = File(ret')]]_vars

\* C9's case: a download for one ticker is written to its file while the
\* other ticker has a file of its own.
C9_Witness ==
    /\ Returned /\ use_cache /\ ticker = "AAPL"
    /\ Len(ret.rows) = 2
    /\ cache["AAPL"] = File(ret)
    /\ entry0.kind = "missing"
    /\ cache["TSLA"].kind = "file" /\ Len(cache["TSLA"].data.rows) = MaxRows

\* C10: a cache file that cannot be read is a miss: the call does not
\* raise; with cache_only it returns an empty frame without a remote
\* request; otherwise it goes through the initial delay into the retry
\* loop, as it does when there is no file.
C10_MalformedIsMiss ==
    entry0.kind = "malformed" /\ (use_cache \/ cache_only) /\ pc # "check"
        => /\ outcome # "raised"
           /\ cache_only => /\ Returned /\ ret = EmptyFrame
                           /\ remoteCalls = 0 /\ fetches = 0 /\ waits = 0
           /\ ~cache_only => \/ pc = "delay" /\ waits = 0 /\ fetches = 0
                            \/ /\ pc \in {"loop", "done"} /\ waits >= 1
                               /\ Done /\ max_retries >= 1 => fetches >= 1

\* C10's case: an unreadable file, then a download on the last attempt,
\* which replaces the file.
C10_Witness ==
    /\ Returned /\ entry0.kind = "malformed"
    /\ use_cache /\ ~cache_only
    /\ src.kind = "remote" /\ fetches = MaxRetries
    /\ cache[ticker] = File(ret)

====
